---- MODULE Spec2Model ----
(***************************************************************************)
(* Model of the pull-request collection pipeline:                          *)
(*   get_repos.py      get_top_200_repos, get_pull_requests_for_repos,     *)
(*                     save_repos_and_prs_to_json and the main block       *)
(*   build_dataset.py  filter_pull_requests                                *)
(*                                                                         *)
(* Spec        the collector's main block against a nondeterministic       *)
(*             upstream                                                    *)
(* FairSpec    one call of get_pull_requests_for_repos, with the weak      *)
(*             fairness of sequential code                                 *)
(* SpecSave    save_repos_and_prs_to_json on every raw record shape        *)
(* SpecFilter  filter_pull_requests on bounded input files                 *)
(***************************************************************************)
EXTENDS Integers, Sequences, FiniteSets, TLC

VARIABLES
    main_pc,            \* position in the main block of get_repos.py
    top_repos,          \* get_top_200_repos: repos
    top_cursor,         \* get_top_200_repos: cursor
    top_has_next_page,  \* get_top_200_repos: has_next_page
    top_response,       \* get_top_200_repos: the last response received
    repos,              \* the list handed to get_pull_requests_for_repos
    index,              \* get_pull_requests_for_repos: index of the for loop
    c_pc,               \* get_pull_requests_for_repos: position
    cursor,             \* get_pull_requests_for_repos: cursor
    has_next_page,      \* get_pull_requests_for_repos: has_next_page
    repo_pr_map,        \* get_pull_requests_for_repos: repo_pr_map
    elapsed,            \* time.time() - start_time of the current repository
    response,           \* the last page response of the current repository
    nreq,               \* page requests issued for the current repository
    ended,              \* why the current repository's while loop ended
    checkpoints,        \* repos_and_prs_partial_<index>.json, by index
    files,              \* the named files of the working directory
    pr_shape,           \* the shape of the pull-request edges the upstream serves
    filter_args,        \* filter_pull_requests: (input_filename, output_filename)
    filter_ret,         \* filter_pull_requests: how the last call ended
    filtered_data,      \* filter_pull_requests: filtered_data
    valid_prs,          \* filter_pull_requests: filtered_pull_requests, per repository
    repos_names,        \* filter_pull_requests: repos_names
    written             \* files written by filter_pull_requests so far

vars == <<main_pc, top_repos, top_cursor, top_has_next_page, top_response,
          repos, index, c_pc, cursor, has_next_page, repo_pr_map, elapsed,
          response, nreq, ended, checkpoints, files, pr_shape, filter_args,
          filter_ret, filtered_data, valid_prs, repos_names, written>>

topVars     == <<top_repos, top_cursor, top_has_next_page, top_response>>
collectVars == <<index, c_pc, cursor, has_next_page, repo_pr_map, elapsed,
                 response, nreq, ended, checkpoints>>
filterVars  == <<filter_args, filter_ret, filtered_data, valid_prs,
                 repos_names, written, pr_shape>>

(***************************************************************************)
(* Python values.  Every value is a record [t, v] whose v is a sequence of *)
(* integers: the digits of a number, the characters of a string, the       *)
(* totalCount entry of a {totalCount: n} object (empty: no such key).      *)
(***************************************************************************)
PyAbsent    == [t |-> "absent", v |-> <<>>]     \* the key is not in the dict
PyNone      == [t |-> "none",   v |-> <<>>]     \* JSON null
PyError     == [t |-> "error",  v |-> <<>>]     \* the expression raised
PyInt(n)    == [t |-> "int",    v |-> <<n>>]
PyStr(s)    == [t |-> "str",    v |-> s]
PyDict(tc)  == [t |-> "dict",   v |-> tc]

\* Python truth value of x
Truthy(x) ==
    CASE x.t = "int"  -> x.v[1] # 0
      [] x.t = "str"  -> x.v # <<>>
      [] x.t = "dict" -> x.v # <<>>
      [] OTHER        -> FALSE

\* d.get(key, default), given the entry of key in d
Get(entry, default) == IF entry.t = "absent" THEN default ELSE entry

\* d.get(key): the default is None
GetNoDefault(entry) == Get(entry, PyNone)

\* x or {}   (the mutant forgets the fallback)
OrEmptyDictMissing(x) == x
OrEmptyDict(x) == IF Truthy(x) THEN x ELSE PyDict(<<>>)

\* x or ''
OrEmptyStr(x) == IF Truthy(x) THEN x ELSE PyStr(<<>>)

\* info.get('totalCount', 0): raises when info is no dict
TotalCount(info) ==
    IF info.t # "dict" THEN PyError
    ELSE IF info.v = <<>> THEN PyInt(0) ELSE PyInt(info.v[1])

\* len(x): raises when x has no length
PyLen(x) == IF x.t \in {"str", "dict"} THEN PyInt(Len(x.v)) ELSE PyError

EmptyNode ==
    [title |-> PyAbsent, url |-> PyAbsent, state |-> PyAbsent,
     createdAt |-> PyAbsent, closedAt |-> PyAbsent, mergedAt |-> PyAbsent,
     reviews |-> PyAbsent, files |-> PyAbsent, additions |-> PyAbsent,
     deletions |-> PyAbsent, body |-> PyAbsent, participants |-> PyAbsent,
     comments |-> PyAbsent]

\* pr.get('node', {}) of an edge [hasNode, node]
PrNode(pr) == IF pr.hasNode THEN pr.node ELSE EmptyNode

\* the pr_data of one edge (save_repos_and_prs_to_json's inner loop body)
NormalizePR(pr) ==
    LET pr_node           == PrNode(pr)
        files_info        == OrEmptyDict(GetNoDefault(pr_node.files))
        participants_info == OrEmptyDict(GetNoDefault(pr_node.participants))
        comments_info     == OrEmptyDict(GetNoDefault(pr_node.comments))
        reviews_info      == OrEmptyDict(GetNoDefault(pr_node.reviews))
    IN  [title             |-> Get(pr_node.title, PyStr(<<>>)),
         url               |-> Get(pr_node.url, PyStr(<<>>)),
         state             |-> Get(pr_node.state, PyStr(<<>>)),
         createdAt         |-> Get(pr_node.createdAt, PyStr(<<>>)),
         closedAt          |-> Get(pr_node.closedAt, PyStr(<<>>)),
         mergedAt          |-> Get(pr_node.mergedAt, PyStr(<<>>)),
         reviewCount       |-> TotalCount(reviews_info),
         numberOfFiles     |-> TotalCount(files_info),
         additions         |-> Get(pr_node.additions, PyInt(0)),
         deletions         |-> Get(pr_node.deletions, PyInt(0)),
         descriptionSize   |-> PyLen(OrEmptyStr(Get(pr_node.body, PyStr(<<>>)))),
         participantsCount |-> TotalCount(participants_info),
         commentsCount     |-> TotalCount(comments_info)]

NumericFields(pr_data) ==
    <<pr_data.reviewCount, pr_data.numberOfFiles, pr_data.additions,
      pr_data.deletions, pr_data.descriptionSize, pr_data.participantsCount,
      pr_data.commentsCount>>

\* building pr_data raised an exception
NormalizeRaises(pr) ==
    \E k \in 1..7 : NumericFields(NormalizePR(pr))[k].t = "error"

(***************************************************************************)
(* Files.  A JSON document is modelled by the value json.dump is given:    *)
(* the data are lists, dicts, strings, integers and nulls, which json.load *)
(* gives back unchanged.                                                   *)
(***************************************************************************)
NoFile     == [exists |-> FALSE, data |-> <<>>]
FileOf(d)  == [exists |-> TRUE,  data |-> d]

RawFile        == "repos_and_prs.json"
FilteredFile   == "filtered_prs.json"
NamesFile      == "repos_names.json"
RefilteredFile == "refiltered_prs.json"
FileNames      == {RawFile, FilteredFile, NamesFile, RefilteredFile}

(***************************************************************************)
(* Program constants of get_repos.py                                       *)
(***************************************************************************)
START_INDEX      == 11
TopCap           == 200
max_prs_per_repo == 100
repo_timeout     == 90
CheckpointEvery  == 10
SleepSeconds     == 1

(***************************************************************************)
(* Bounds of the model                                                     *)
(***************************************************************************)
MaxRepos    == 21   \* the PR collection is explored for lists up to this length
MaxRequests == 6    \* page requests explored for one repository
MaxCallRepos == 13  \* longest list of a direct call of the PR collection

\* what the upstream may answer
SearchPageSizes  == {0, 7, 11, 100}     \* edges of a search page
PrPageSizes      == {0, 20, 60}         \* edges of a pull-request page
RequestSeconds   == {29, 99}            \* duration of a request
WithPullRequests == {11, 20}            \* the repositories that have any

Min(a, b) == IF a < b THEN a ELSE b
Take(s, n) == SubSeq(s, 1, Min(n, Len(s)))           \* s[:n]

\* the search edge of rank n
RepoNode(n) == [nameWithOwner |-> n, stargazerCount |-> 1000 - n, url |-> n]

\* a pull-request edge with every field of the query filled in
FullEdge ==
    [hasNode |-> TRUE,
     node |-> [title |-> PyStr(<<1>>), url |-> PyStr(<<0, 0>>),
               state |-> PyStr(<<1>>),
               createdAt |-> PyStr(<<1, 0, 0, 0>>),
               closedAt |-> PyStr(<<1, 0, 10, 0>>),
               mergedAt |-> PyNone,
               reviews |-> PyDict(<<1>>), files |-> PyDict(<<2>>),
               additions |-> PyInt(3), deletions |-> PyInt(1),
               body |-> PyStr(<<7, 7>>), participants |-> PyDict(<<1>>),
               comments |-> PyDict(<<0>>)]]

\* The i-th pull-request edge of repository name, as the upstream sends it:
\* the served shape, with the url of that pull request.  repo_pr_map holds
\* the edges by their number i (Python's lists hold references likewise).
RawEdge(name, i) ==
    IF pr_shape.hasNode /\ pr_shape.node.url.t = "str"
    THEN [pr_shape EXCEPT !.node.url = PyStr(<<name, i>>)]
    ELSE pr_shape

(***************************************************************************)
(* save_repos_and_prs_to_json                                              *)
(***************************************************************************)
\* repo_pr_map.get(repo_name_with_owner, [])
PullRequestsOf(map, name) ==
    IF name \in DOMAIN map
    THEN [k \in 1..Len(map[name]) |-> RawEdge(name, map[name][k])]
    ELSE <<>>

RepoData(repo, map) ==
    LET pull_requests == PullRequestsOf(map, repo.nameWithOwner)
    IN  [repository |->
           [nameWithOwner |-> repo.nameWithOwner,
            stars         |-> repo.stargazerCount,
            url           |-> repo.url,
            pullRequests  |-> [i \in 1..Len(pull_requests) |->
                                 NormalizePR(pull_requests[i])]]]

\* `if not pull_requests: continue`   (the mutant keeps empty repositories)
HasPullRequestsAlways(map, repo) == TRUE
HasPullRequests(map, repo) == PullRequestsOf(map, repo.nameWithOwner) # <<>>

\* the list `data` that save_repos_and_prs_to_json dumps
SaveData(rs, map) ==
    LET kept == SelectSeq(rs, LAMBDA repo : HasPullRequests(map, repo))
    IN  [k \in 1..Len(kept) |-> RepoData(kept[k], map)]

\* save_repos_and_prs_to_json raises before it opens the file
SaveRaises(rs, map) ==
    \E k \in 1..Len(rs) :
        \E i \in 1..Len(PullRequestsOf(map, rs[k].nameWithOwner)) :
            NormalizeRaises(PullRequestsOf(map, rs[k].nameWithOwner)[i])

(***************************************************************************)
(* get_top_200_repos                                                       *)
(***************************************************************************)
NoResponse == [kind |-> "none", status |-> 0, errors |-> FALSE,
               hasData |-> FALSE, edges |-> 0, hasNextPage |-> FALSE]

\* an HTTP response: its status, whether the body has an "errors" list,
\* whether body["data"] holds the queried object, and the page it carries
HttpResponse(status, errors, hasData, edges, hasNext) ==
    [kind |-> "http", status |-> status, errors |-> errors,
     hasData |-> hasData, edges |-> edges, hasNextPage |-> hasNext]

\* requests.post raised (a timeout, or another transport exception)
TransportFailure(kind) ==
    [kind |-> kind, status |-> 0, errors |-> FALSE, hasData |-> FALSE,
     edges |-> 0, hasNextPage |-> FALSE]

\* `while has_next_page and len(repos) < 200`
TopLoopCondition == top_has_next_page /\ Len(top_repos) < TopCap

\* the responses the search may get
SearchResponses ==
    {HttpResponse(st, er, hd, IF hd THEN n ELSE 0, hd /\ hn) :
        st \in {200, 502}, er \in BOOLEAN, hd \in BOOLEAN,
        n \in SearchPageSizes, hn \in BOOLEAN}

\* lines 54-55 and 57-58: the status check, then data["data"]["search"]
TopPageRaises(resp) == resp.status # 200 \/ ~resp.hasData

\* one iteration of the while loop that raises
TopFetchRaise ==
    /\ main_pc = "discover"
    /\ TopLoopCondition
    /\ \E resp \in SearchResponses :
         /\ TopPageRaises(resp)
         /\ top_response' = resp
    /\ main_pc' = "raised"
    /\ UNCHANGED <<top_repos, top_cursor, top_has_next_page, repos,
                   collectVars, files, filterVars>>

\* one iteration of the while loop that takes the page
TopFetchOk ==
    /\ main_pc = "discover"
    /\ TopLoopCondition
    /\ \E resp \in SearchResponses :
         /\ ~TopPageRaises(resp)
         /\ top_response' = resp
         /\ top_repos' = top_repos \o
                [i \in 1..resp.edges |-> RepoNode(top_cursor + i)]
         /\ top_has_next_page' = resp.hasNextPage
         /\ top_cursor' = top_cursor + resp.edges
    /\ UNCHANGED <<main_pc, repos, collectVars, files, filterVars>>

\* `return repos[:200]`
TopResult == Take(top_repos, TopCap)

\* the loop ends; main hands the list to get_pull_requests_for_repos, whose
\* first lines set repo_pr_map = {} and start the for loop at START_INDEX
TopReturn ==
    /\ main_pc = "discover"
    /\ ~TopLoopCondition
    /\ repos' = TopResult
    /\ top_repos' = <<>>
    /\ top_response' = NoResponse
    /\ main_pc' = IF Len(TopResult) <= MaxRepos THEN "collect" ELSE "beyond"
    /\ c_pc' = IF Len(TopResult) <= MaxRepos THEN "for" ELSE c_pc
    /\ UNCHANGED <<top_cursor, top_has_next_page, index, cursor,
                   has_next_page, repo_pr_map, elapsed, response, nreq, ended,
                   checkpoints, files, filterVars>>

(***************************************************************************)
(* get_pull_requests_for_repos                                             *)
(***************************************************************************)
\* repo_name_with_owner of the for loop's current repository
CurrentName == repos[index].nameWithOwner

\* `while has_next_page and len(repo_pr_map[name]) < max_prs_per_repo`
LoopCondition ==
    has_next_page /\ Len(repo_pr_map[CurrentName]) < max_prs_per_repo

\* `if time.time() - start_time > repo_timeout`   (the mutant never fires)
TimedOutNever(e) == FALSE
TimedOut(e) == e > repo_timeout

\* the clock after a request of d seconds and time.sleep(1)
ClockAfter(e, d) == e + d + SleepSeconds

\* the sizes of the page the upstream may send for the current repository
PageSizesNow ==
    IF CurrentName \in WithPullRequests THEN PrPageSizes ELSE {0}

\* the failures of a page fetch: the two except clauses, a status other than
\* 200, and an "errors" entry in the body (with or without data)
FailedResponses ==
    {TransportFailure("timeout"), TransportFailure("exception"),
     HttpResponse(502, FALSE, FALSE, 0, FALSE),
     HttpResponse(200, TRUE, FALSE, 0, FALSE),
     HttpResponse(200, TRUE, TRUE, 20, TRUE)}

\* lines 131-147: does this response break out of the loop?
PageFails(resp) ==
    resp.kind # "http" \/ resp.status # 200 \/ resp.errors

\* the for loop takes the next repository (lines 113-119)
ForNext ==
    /\ main_pc = "collect"
    /\ c_pc = "for"
    /\ index <= Len(repos)
    /\ repo_pr_map' = [n \in DOMAIN repo_pr_map \cup {CurrentName} |->
                         IF n = CurrentName THEN <<>> ELSE repo_pr_map[n]]
    /\ cursor' = 0
    /\ has_next_page' = TRUE
    /\ elapsed' = 0
    /\ response' = NoResponse
    /\ nreq' = 0
    /\ ended' = "running"
    /\ c_pc' = "while"
    /\ UNCHANGED <<main_pc, topVars, repos, index, checkpoints, files,
                   filterVars>>

\* the for loop is exhausted: `return repo_pr_map`
ForDone ==
    /\ main_pc = "collect"
    /\ c_pc = "for"
    /\ index > Len(repos)
    /\ c_pc' = "returned"
    /\ main_pc' = "save"
    /\ UNCHANGED <<topVars, repos, index, cursor, has_next_page, repo_pr_map,
                   elapsed, response, nreq, ended, checkpoints, files,
                   filterVars>>

\* the while condition is false
LoopExit ==
    /\ main_pc = "collect"
    /\ c_pc = "while"
    /\ ~LoopCondition
    /\ ended' = IF has_next_page THEN "cap" ELSE "no_more_pages"
    /\ c_pc' = "after"
    /\ UNCHANGED <<main_pc, topVars, repos, index, cursor, has_next_page,
                   repo_pr_map, elapsed, response, nreq, checkpoints, files,
                   filterVars>>

\* lines 125-127: the budget is exceeded
TimeoutBreak ==
    /\ main_pc = "collect"
    /\ c_pc = "while"
    /\ LoopCondition
    /\ TimedOut(elapsed)
    /\ ended' = "timeout"
    /\ c_pc' = "after"
    /\ UNCHANGED <<main_pc, topVars, repos, index, cursor, has_next_page,
                   repo_pr_map, elapsed, response, nreq, checkpoints, files,
                   filterVars>>

\* a failed fetch that is tried again (the mutant of FetchFail)
FetchFailRetry ==
    /\ main_pc = "collect"
    /\ c_pc = "while"
    /\ LoopCondition
    /\ ~TimedOut(elapsed)
    /\ nreq < MaxRequests
    /\ \E resp \in FailedResponses, d \in RequestSeconds :
         /\ response' = resp
         /\ elapsed' = ClockAfter(elapsed, d)
    /\ nreq' = nreq + 1
    /\ ended' = "failure"
    /\ UNCHANGED <<main_pc, topVars, repos, index, c_pc, cursor, has_next_page,
                   repo_pr_map, checkpoints, files, filterVars>>

\* lines 129-147: the request is sent and fails
FetchFail ==
    /\ main_pc = "collect"
    /\ c_pc = "while"
    /\ LoopCondition
    /\ ~TimedOut(elapsed)
    /\ nreq < MaxRequests
    /\ \E resp \in FailedResponses :
         /\ PageFails(resp)
         /\ response' = resp
    /\ nreq' = nreq + 1
    /\ ended' = "failure"
    /\ c_pc' = "after"
    /\ UNCHANGED <<main_pc, topVars, repos, index, cursor, has_next_page,
                   repo_pr_map, elapsed, checkpoints, files, filterVars>>

\* lines 129-156: the request is sent and its page is taken
FetchOk ==
    /\ main_pc = "collect"
    /\ c_pc = "while"
    /\ LoopCondition
    /\ ~TimedOut(elapsed)
    /\ nreq < MaxRequests
    /\ \E n \in PageSizesNow, hn \in BOOLEAN, d \in RequestSeconds :
         LET resp == HttpResponse(200, FALSE, TRUE, n, hn) IN
         /\ ~PageFails(resp)
         /\ response' = resp
         /\ repo_pr_map' =
              [repo_pr_map EXCEPT ![CurrentName] =
                 @ \o [i \in 1..resp.edges |-> cursor + i]]
         /\ has_next_page' = resp.hasNextPage
         /\ cursor' = cursor + resp.edges
         /\ elapsed' = ClockAfter(elapsed, d)
    /\ nreq' = nreq + 1
    /\ UNCHANGED <<main_pc, topVars, repos, index, c_pc, ended, checkpoints,
                   files, filterVars>>

\* `repo_pr_map[name] = repo_pr_map[name][:max_prs_per_repo]`
\* (the mutant leaves the list as the loop left it)
TruncatedNot(prs) == prs
Truncated(prs) == Take(prs, max_prs_per_repo)

\* `if index % 10 == 0`
CheckpointDue(i) == i % CheckpointEvery = 0

\* lines 159-165: the list is cut to the cap, the checkpoint is written when
\* it is due, and the for loop moves on
AfterLoop ==
    /\ main_pc = "collect"
    /\ c_pc = "after"
    /\ LET map == [repo_pr_map EXCEPT
                     ![CurrentName] = Truncated(repo_pr_map[CurrentName])]
       IN  /\ repo_pr_map' = map
           /\ IF CheckpointDue(index) /\ SaveRaises(Take(repos, index), map)
              THEN /\ main_pc' = "raised"
                   /\ UNCHANGED <<checkpoints, index, c_pc>>
              ELSE /\ checkpoints' =
                        IF CheckpointDue(index)
                        THEN [i \in DOMAIN checkpoints \cup {index} |->
                                IF i = index
                                THEN FileOf(SaveData(Take(repos, index), map))
                                ELSE checkpoints[i]]
                        ELSE checkpoints
                   /\ index' = index + 1
                   /\ c_pc' = "for"
                   /\ UNCHANGED main_pc
    /\ UNCHANGED <<topVars, repos, cursor, has_next_page, elapsed, response,
                   nreq, ended, files, filterVars>>

\* main: save_repos_and_prs_to_json(repos, repo_pr_map, "repos_and_prs.json")
SaveFinal ==
    /\ main_pc = "save"
    /\ IF SaveRaises(repos, repo_pr_map)
       THEN /\ main_pc' = "raised"
            /\ UNCHANGED files
       ELSE /\ main_pc' = "done"
            /\ files' = [files EXCEPT
                           ![RawFile] = FileOf(SaveData(repos, repo_pr_map))]
    /\ UNCHANGED <<topVars, repos, collectVars, filterVars>>

EmptyMap == [n \in {} |-> <<>>]

Init ==
    /\ main_pc = "discover"
    /\ top_repos = <<>>
    /\ top_cursor = 0
    /\ top_has_next_page = TRUE
    /\ top_response = NoResponse
    /\ repos = <<>>
    /\ index = START_INDEX
    /\ c_pc = "not_called"
    /\ cursor = 0
    /\ has_next_page = TRUE
    /\ repo_pr_map = EmptyMap
    /\ elapsed = 0
    /\ response = NoResponse
    /\ nreq = 0
    /\ ended = "running"
    /\ checkpoints = EmptyMap
    /\ files = [f \in FileNames |-> NoFile]
    /\ pr_shape = FullEdge
    /\ filter_args = <<RawFile, FilteredFile>>
    /\ filter_ret = "not_called"
    /\ filtered_data = <<>>
    /\ valid_prs = <<>>
    /\ repos_names = <<>>
    /\ written = {}

Collect ==
    \/ ForNext
    \/ ForDone
    \/ LoopExit
    \/ TimeoutBreak
    \/ FetchFail
    \/ FetchOk
    \/ AfterLoop

Next ==
    \/ TopFetchRaise
    \/ TopFetchOk
    \/ TopReturn
    \/ Collect
    \/ SaveFinal

Spec == Init /\ [][Next]_vars

(***************************************************************************)
(* get_pull_requests_for_repos called on a given list: the state is that   *)
(* of its first lines (repo_pr_map = {}, the for loop at START_INDEX).     *)
(***************************************************************************)
InitCall ==
    /\ main_pc = "collect"
    /\ top_repos = <<>>
    /\ top_cursor = 0
    /\ top_has_next_page = TRUE
    /\ top_response = NoResponse
    /\ \E n \in (START_INDEX - 1)..MaxCallRepos :
          repos = [k \in 1..n |-> RepoNode(k)]
    /\ index = START_INDEX
    /\ c_pc = "for"
    /\ cursor = 0
    /\ has_next_page = TRUE
    /\ repo_pr_map = EmptyMap
    /\ elapsed = 0
    /\ response = NoResponse
    /\ nreq = 0
    /\ ended = "running"
    /\ checkpoints = EmptyMap
    /\ files = [f \in FileNames |-> NoFile]
    /\ pr_shape = FullEdge
    /\ filter_args = <<RawFile, FilteredFile>>
    /\ filter_ret = "not_called"
    /\ filtered_data = <<>>
    /\ valid_prs = <<>>
    /\ repos_names = <<>>
    /\ written = {}

\* The collector is sequential code and every request returns (requests.post
\* is given timeout=20): a step of the collection that can be taken is taken.
FairSpec == InitCall /\ [][Collect]_vars /\ WF_vars(Collect)

(***************************************************************************)
(* save_repos_and_prs_to_json called on records of every shape             *)
(***************************************************************************)
\* a nested {totalCount: n} object: missing, null, empty, or with its count
NestedShapes == {PyAbsent, PyNone, PyDict(<<>>), PyDict(<<3>>)}

\* the edges the upstream may serve: without a node, or with a node whose
\* optional parts are missing, null or filled in
RawShapes ==
    {[hasNode |-> FALSE, node |-> EmptyNode]} \cup
    {[hasNode |-> TRUE,
      node |-> [title |-> PyStr(<<1>>), url |-> PyStr(<<0, 0>>),
                state |-> PyStr(<<1>>),
                createdAt |-> PyStr(<<1, 0, 0, 0>>),
                closedAt |-> PyStr(<<1, 0, 10, 0>>),
                mergedAt |-> mg,
                reviews |-> rv, files |-> fl,
                additions |-> ad, deletions |-> dl,
                body |-> bd, participants |-> pt, comments |-> cm]] :
        rv \in NestedShapes, fl \in NestedShapes, pt \in NestedShapes,
        cm \in NestedShapes,
        bd \in {PyAbsent, PyNone, PyStr(<<>>), PyStr(<<7, 7, 7>>)},
        ad \in {PyAbsent, PyInt(0), PyInt(5)},
        dl \in {PyAbsent, PyInt(2)},
        mg \in {PyNone, PyStr(<<1, 0, 10, 0>>)}}

InitSave ==
    /\ main_pc = "save"
    /\ top_repos = <<>>
    /\ top_cursor = 0
    /\ top_has_next_page = FALSE
    /\ top_response = NoResponse
    /\ repos = <<RepoNode(1), RepoNode(2)>>
    /\ index = START_INDEX
    /\ c_pc = "returned"
    /\ cursor = 0
    /\ has_next_page = FALSE
    /\ repo_pr_map = [n \in {1, 2} |-> IF n = 1 THEN <<1, 2>> ELSE <<>>]
    /\ elapsed = 0
    /\ response = NoResponse
    /\ nreq = 0
    /\ ended = "running"
    /\ checkpoints = EmptyMap
    /\ files = [f \in FileNames |-> NoFile]
    /\ pr_shape \in RawShapes
    /\ filter_args = <<RawFile, FilteredFile>>
    /\ filter_ret = "not_called"
    /\ filtered_data = <<>>
    /\ valid_prs = <<>>
    /\ repos_names = <<>>
    /\ written = {}

SpecSave == InitSave /\ [][SaveFinal]_vars

(***************************************************************************)
(* filter_pull_requests (build_dataset.py)                                 *)
(*                                                                         *)
(* A timestamp string "YYYY-MM-DDThh:mm:ssZ" is the string <<day, hh, mm,  *)
(* ss>>; the empty string is <<>>.                                         *)
(***************************************************************************)
MinMinutes  == 10       \* timedelta(minutes=10)
MinValidPRs == 20       \* `if len(filtered_pull_requests) >= 20`

\* datetime.fromisoformat(s.replace("Z", "+00:00")), in seconds
FromIsoFormat(s) == ((s.v[1] * 24 + s.v[2]) * 60 + s.v[3]) * 60 + s.v[4]

\* `datetime.fromisoformat(...) if pr[key] else None`
ParsedOrNone(x) == IF Truthy(x) THEN PyInt(FromIsoFormat(x)) ELSE PyNone

\* lines 38-42: merged_at is looked at first  (the mutant looks at closed_at)
TimeDiffClosedFirst(pr) ==
    LET created_at == FromIsoFormat(pr.createdAt)
        closed_at  == ParsedOrNone(pr.closedAt)
        merged_at  == ParsedOrNone(pr.mergedAt)
    IN  IF closed_at.t = "int" THEN PyInt(closed_at.v[1] - created_at)
        ELSE IF merged_at.t = "int" THEN PyInt(merged_at.v[1] - created_at)
        ELSE PyNone
TimeDiff(pr) ==
    LET created_at == FromIsoFormat(pr.createdAt)
        closed_at  == ParsedOrNone(pr.closedAt)
        merged_at  == ParsedOrNone(pr.mergedAt)
    IN  IF merged_at.t = "int" THEN PyInt(merged_at.v[1] - created_at)
        ELSE IF closed_at.t = "int" THEN PyInt(closed_at.v[1] - created_at)
        ELSE PyNone

\* `has_reviews = (pr['reviewCount'] > 0) or (pr['commentsCount'] > 0)`
HasReviews(pr) == pr.reviewCount.v[1] > 0 \/ pr.commentsCount.v[1] > 0

\* `if has_reviews and time_diff and time_diff >= timedelta(minutes=10)`
Survives(pr) ==
    LET time_diff == TimeDiff(pr)
    IN  /\ HasReviews(pr)
        /\ Truthy(time_diff)
        /\ time_diff.v[1] >= MinMinutes * 60

\* the filtered_pull_requests of one repository entry
ValidPRs(entry) == SelectSeq(entry.repository.pullRequests, Survives)

\* `if len(filtered_pull_requests) >= 20`   (the mutants: a strict
\* comparison; the length of the unfiltered list)
KeepRepoStrict(prs, valid) == Len(valid) > MinValidPRs
KeepRepoByInput(prs, valid) == Len(prs) >= MinValidPRs
KeepRepo(prs, valid) == Len(valid) >= MinValidPRs

\* the filtered_pull_requests of every entry of the loaded data, in order
\* (\o <<>> has TLC hold the list as a tuple, computed once)
ValidLists(data) == [k \in 1..Len(data) |-> ValidPRs(data[k])] \o <<>>

\* the filtered_data built by the loop over the loaded data, given the
\* filtered_pull_requests of its entries
FilteredDataOf(data, valid) ==
    LET kept == SelectSeq([k \in 1..Len(data) |-> k],
                   LAMBDA k : KeepRepo(data[k].repository.pullRequests,
                                       valid[k]))
    IN  [j \in 1..Len(kept) |->
           [repository |->
              [nameWithOwner |-> data[kept[j]].repository.nameWithOwner,
               stars         |-> data[kept[j]].repository.stars,
               url           |-> data[kept[j]].repository.url,
               pullRequests  |-> valid[kept[j]]]]] \o <<>>

\* the repos_names built by the same loop: a name for each entry appended
ReposNamesOf(fd) == [k \in 1..Len(fd) |-> fd[k].repository.nameWithOwner]

\* `if filtered_data:`   (the mutant writes in every case)
WritesOutputAlways(fd) == TRUE
WritesOutput(fd) == fd # <<>>

\* the calls of filter_pull_requests: the main block's, and a second pass
\* over the file the first one wrote
FilterCalls == {<<RawFile, FilteredFile>>, <<FilteredFile, RefilteredFile>>}

\* lines 9-11: the input file does not exist
FilterMissingInput ==
    /\ main_pc = "filter"
    /\ \E args \in FilterCalls :
         /\ ~files[args[1]].exists
         /\ filter_args' = args
    /\ filter_ret' = "missing_input"
    /\ UNCHANGED <<main_pc, topVars, repos, collectVars, files, filtered_data,
                   valid_prs, repos_names, written, pr_shape>>

\* lines 13-69: the data are filtered and both files are written
FilterWrites ==
    /\ main_pc = "filter"
    /\ \E args \in FilterCalls :
         /\ files[args[1]].exists
         /\ LET data  == files[args[1]].data
                valid == ValidLists(data)
                fd    == FilteredDataOf(data, valid)
                names == ReposNamesOf(fd)
            IN  /\ WritesOutput(fd)
                /\ filter_args' = args
                /\ valid_prs' = valid
                /\ filtered_data' = fd
                /\ repos_names' = names
                /\ files' = [files EXCEPT ![args[2]] = FileOf(fd),
                                          ![NamesFile] = FileOf(names)]
                /\ written' = written \cup {args[2], NamesFile}
    /\ filter_ret' = "completed"
    /\ UNCHANGED <<main_pc, topVars, repos, collectVars, pr_shape>>

\* lines 13-62 and 70-71: no repository is left, and nothing is written
FilterWritesNothing ==
    /\ main_pc = "filter"
    /\ \E args \in FilterCalls :
         /\ files[args[1]].exists
         /\ LET data  == files[args[1]].data
                valid == ValidLists(data)
                fd    == FilteredDataOf(data, valid)
            IN  /\ ~WritesOutput(fd)
                /\ filter_args' = args
                /\ valid_prs' = valid
                /\ filtered_data' = fd
                /\ repos_names' = ReposNamesOf(fd)
    /\ filter_ret' = "completed"
    /\ UNCHANGED <<main_pc, topVars, repos, collectVars, files, written,
                   pr_shape>>

\* ---- the input files of the filter ----
Created == PyStr(<<1, 0, 0, 0>>)

\* what closedAt and mergedAt may hold: null, '', and times 9:59 and 10:00
\* after the creation, at the creation and before it
ResolutionValues ==
    {PyNone, PyStr(<<>>), PyStr(<<1, 0, 9, 59>>), PyStr(<<1, 0, 10, 0>>),
     PyStr(<<1, 0, 0, 0>>), PyStr(<<0, 23, 59, 59>>)}
ClosedValues ==
    {PyNone, PyStr(<<>>), PyStr(<<1, 0, 9, 59>>), PyStr(<<1, 0, 10, 0>>)}

PullRequest(name, i, rc, cc, merged, closed) ==
    [url |-> PyStr(<<name, i>>), createdAt |-> Created, closedAt |-> closed,
     mergedAt |-> merged, reviewCount |-> PyInt(rc), commentsCount |-> PyInt(cc)]

\* a reviewed pull request merged after ten minutes; one nobody looked at
GoodPR(name, i) ==
    PullRequest(name, i, 1, 0, PyStr(<<1, 0, 10, 0>>), PyStr(<<1, 0, 10, 0>>))
BadPR(name, i) ==
    PullRequest(name, i, 0, 0, PyStr(<<2, 0, 0, 0>>), PyStr(<<2, 0, 0, 0>>))

RepoEntry(name, prs) ==
    [repository |-> [nameWithOwner |-> name, stars |-> 1000 - name,
                     url |-> name, pullRequests |-> prs]]

\* a repository of a good records, one probe record and b bad records
ProbedRepo(name, a, probe, b) ==
    RepoEntry(name,
        [i \in 1..(a + 1 + b) |->
            IF i <= a THEN GoodPR(name, i)
            ELSE IF i = a + 1 THEN [probe EXCEPT !.url = PyStr(<<name, i>>)]
            ELSE BadPR(name, i)])

Probes ==
    {PullRequest(0, 0, rc, cc, mg, cl) :
        rc \in {0, 1}, cc \in {0, 2},
        mg \in ResolutionValues, cl \in ClosedValues}

\* 25 records of which 22 pass
SecondRepo ==
    RepoEntry(2, [i \in 1..25 |-> IF i <= 22 THEN GoodPR(2, i) ELSE BadPR(2, i)])

FilterInputs ==
    {<<ProbedRepo(1, ab[1], probe, ab[2])>> \o tail :
        ab \in {<<19, 0>>, <<20, 0>>, <<21, 3>>, <<14, 10>>, <<0, 0>>},
        probe \in Probes,
        tail \in {<<>>, <<SecondRepo>>}}

\* what an earlier run may have left in the output files
StaleData == <<RepoEntry(9, [i \in 1..20 |-> GoodPR(9, i)])>>

InitFilter ==
    /\ main_pc = "filter"
    /\ top_repos = <<>>
    /\ top_cursor = 0
    /\ top_has_next_page = FALSE
    /\ top_response = NoResponse
    /\ repos = <<>>
    /\ index = START_INDEX
    /\ c_pc = "not_called"
    /\ cursor = 0
    /\ has_next_page = FALSE
    /\ repo_pr_map = EmptyMap
    /\ elapsed = 0
    /\ response = NoResponse
    /\ nreq = 0
    /\ ended = "running"
    /\ checkpoints = EmptyMap
    /\ \E input \in FilterInputs, stale \in BOOLEAN :
         files = [f \in FileNames |->
                    IF f = RawFile THEN FileOf(input)
                    ELSE IF stale /\ f = FilteredFile THEN FileOf(StaleData)
                    ELSE IF stale /\ f = NamesFile THEN FileOf(<<9>>)
                    ELSE NoFile]
    /\ pr_shape = FullEdge
    /\ filter_args = <<RawFile, FilteredFile>>
    /\ filter_ret = "not_called"
    /\ filtered_data = <<>>
    /\ valid_prs = <<>>
    /\ repos_names = <<>>
    /\ written = {}

NextFilter ==
    \/ FilterMissingInput
    \/ FilterWrites
    \/ FilterWritesNothing

SpecFilter == InitFilter /\ [][NextFilter]_vars

(***************************************************************************)
(* Properties of the collector                                             *)
(***************************************************************************)
\* the indices whose repository the for loop has finished
Finished == START_INDEX..(index - 1)

NameAt(k) == repos[k].nameWithOwner

\* a page request is sent in this step
RequestSent == nreq' # nreq

\* C3: a page fetch that fails (transport timeout or exception, a status
\* other than 200, an "errors" entry) ends the repository's loop at once with
\* the records of the earlier pages untouched; nothing is requested again for
\* that repository, and the run moves on to the next one without failing.
C3_FailedFetchSkipsRepo ==
    /\ [][(c_pc = "while" /\ RequestSent /\ PageFails(response'))
            => /\ c_pc' = "after"
               /\ ended' = "failure"
               /\ repo_pr_map' = repo_pr_map
               /\ main_pc' = "collect"]_vars
    /\ [][(c_pc = "after" /\ ended = "failure")
            => /\ ~RequestSent
               /\ repo_pr_map' = repo_pr_map
               /\ index' = index + 1
               /\ c_pc' = "for"
               /\ main_pc' = "collect"]_vars

\* a fetch failed after earlier pages had brought records
C3_Witness ==
    /\ c_pc = "after"
    /\ ended = "failure"
    /\ nreq >= 2
    /\ repo_pr_map[CurrentName] # <<>>

\* C4 as stated: a search page with a status other than 200 or with an
\* "errors" list in its body makes get_top_200_repos raise.
C4_ErrorPageRaises ==
    (top_response.kind = "http"
        /\ (top_response.status # 200 \/ top_response.errors))
    => main_pc = "raised"

\* the names of the entries of a dumped list, in order
EntryNames(data) == [e \in 1..Len(data) |-> data[e].repository.nameWithOwner]

\* the names of the repositories among repos[lo..hi] that hold records
RECURSIVE NamesWithRecords(_, _)
NamesWithRecords(lo, hi) ==
    IF hi < lo THEN <<>>
    ELSE NamesWithRecords(lo, hi - 1) \o
            (IF repo_pr_map[NameAt(hi)] # <<>> THEN <<NameAt(hi)>> ELSE <<>>)

\* the entry of a dumped list carries the records collected for its repository
EntryHoldsRecords(entry) ==
    LET name == entry.repository.nameWithOwner
        prs  == entry.repository.pullRequests
    IN  /\ Len(prs) = Len(repo_pr_map[name])
        /\ \A j \in 1..Len(prs) :
              prs[j].url = PyStr(<<name, repo_pr_map[name][j]>>)

\* a checkpoint exists for exactly the finished indices at which the number
\* of repositories processed in this run is a multiple of ten
CheckpointsEveryTen ==
    \A i \in Finished :
        (i \in DOMAIN checkpoints) <=> ((i - START_INDEX + 1) % 10 = 0)

\* C5 as stated: the checkpoint of index i holds every repository processed
\* so far, each with its collected records.
C5_CheckpointHoldsAllProcessed ==
    /\ CheckpointsEveryTen
    /\ \A i \in DOMAIN checkpoints :
          /\ checkpoints[i].exists
          /\ \A k \in START_INDEX..i :
                \E e \in 1..Len(checkpoints[i].data) :
                    /\ checkpoints[i].data[e].repository.nameWithOwner = NameAt(k)
                    /\ EntryHoldsRecords(checkpoints[i].data[e])

\* C5 amended: the checkpoint of index i holds, in order, exactly the
\* repositories processed so far for which at least one record was collected,
\* each with its collected records; a processed repository without records
\* is left out.
C5_CheckpointHoldsNonEmpty ==
    /\ CheckpointsEveryTen
    /\ \A i \in DOMAIN checkpoints :
          /\ checkpoints[i].exists
          /\ EntryNames(checkpoints[i].data) = NamesWithRecords(START_INDEX, i)
          /\ \A e \in 1..Len(checkpoints[i].data) :
                EntryHoldsRecords(checkpoints[i].data[e])

\* the checkpoint of index 20 is written; repository 11 was cut short with
\* records, repository 12 has none
C5_Witness ==
    /\ 20 \in DOMAIN checkpoints
    /\ repo_pr_map[NameAt(11)] # <<>>
    /\ Len(repo_pr_map[NameAt(11)]) < max_prs_per_repo
    /\ repo_pr_map[NameAt(12)] = <<>>
    /\ Len(checkpoints[20].data) >= 1

\* C6: whatever pages the upstream sends, a finished repository holds at most
\* 100 records and get_top_200_repos returns at most 200 repositories.
C6_CapsRespected ==
    /\ \A k \in Finished : Len(repo_pr_map[NameAt(k)]) <= 100
    /\ (main_pc \in {"collect", "beyond", "save", "done"}) => Len(repos) <= 200

\* repository 11 is finished with 100 records, cut from the more than 100
\* that its pages brought (the cursor counts the edges received)
C6_Witness ==
    /\ main_pc = "collect"
    /\ c_pc = "for"
    /\ index = START_INDEX + 1
    /\ cursor > 100
    /\ Len(repo_pr_map[NameAt(START_INDEX)]) = 100

\* get_top_200_repos returned 200 repositories out of more
C6_WitnessTop == main_pc = "beyond" /\ Len(repos) = 200 /\ top_cursor > 200

\* C10: under the fairness of sequential code every repository's page loop
\* ends (cap, no further pages, failure or timeout), no request is sent once
\* the 90 seconds are found exceeded, and the run returns with every
\* repository from the resume offset on processed.
C10_ForwardProgress ==
    /\ [](c_pc = "while" => <>(c_pc = "after"))
    /\ [](main_pc = "collect" => <>(c_pc = "returned"))
    /\ [](c_pc = "after" =>
            ended \in {"cap", "no_more_pages", "failure", "timeout"})
    /\ [][(c_pc = "while" /\ LoopCondition /\ elapsed > repo_timeout)
            => (~RequestSent /\ c_pc' = "after" /\ ended' = "timeout")]_vars
    /\ [](c_pc = "returned" =>
            \A k \in START_INDEX..Len(repos) : NameAt(k) \in DOMAIN repo_pr_map)

\* a repository whose pages all announced a next page and brought no record
\* is left by the timeout
C10_Witness ==
    /\ c_pc = "after"
    /\ ended = "timeout"
    /\ nreq >= 2
    /\ repo_pr_map[CurrentName] = <<>>
    /\ has_next_page

\* the bound on the requests of one repository never stops a request
RequestBoundIdle ==
    (c_pc = "while" /\ LoopCondition /\ ~TimedOut(elapsed)) => nreq < MaxRequests

(***************************************************************************)
(* Properties of save_repos_and_prs_to_json                                *)
(***************************************************************************)
Missing(x) == x.t \in {"absent", "none"}

\* the record pr_data is the normalized form the contract asks for of node
NormalizedAsAsked(node, pr_data) ==
    /\ \A k \in 1..7 : NumericFields(pr_data)[k].t = "int"
    /\ Missing(node.reviews)      => pr_data.reviewCount = PyInt(0)
    /\ Missing(node.files)        => pr_data.numberOfFiles = PyInt(0)
    /\ Missing(node.participants) => pr_data.participantsCount = PyInt(0)
    /\ Missing(node.comments)     => pr_data.commentsCount = PyInt(0)
    /\ Missing(node.body)         => pr_data.descriptionSize = PyInt(0)
    /\ node.body.t = "str"  => pr_data.descriptionSize = PyInt(Len(node.body.v))
    /\ node.reviews.t = "dict" /\ node.reviews.v # <<>>
          => pr_data.reviewCount = PyInt(node.reviews.v[1])

\* C7: whatever optional parts of a raw record are missing or null, the
\* save does not raise and the written record has every numeric field an
\* integer, 0 for a missing sub-object and for a null body.
C7_NormalizationTotal ==
    /\ main_pc # "raised"
    /\ main_pc = "done" =>
         /\ files[RawFile].exists
         /\ Len(files[RawFile].data) = 1
         /\ LET prs == files[RawFile].data[1].repository.pullRequests
            IN  /\ Len(prs) = Len(repo_pr_map[1])
                /\ \A j \in 1..Len(prs) :
                      NormalizedAsAsked(PrNode(pr_shape), prs[j])

\* a record with reviews and body null and files missing has been written
C7_Witness ==
    /\ main_pc = "done"
    /\ pr_shape.hasNode
    /\ pr_shape.node.reviews = PyNone
    /\ pr_shape.node.body = PyNone
    /\ pr_shape.node.files = PyAbsent
    /\ files[RawFile].data[1].repository.pullRequests[1].reviewCount = PyInt(0)

(***************************************************************************)
(* Properties of filter_pull_requests.  The survival predicate is written  *)
(* here from the contract, not from the code.                              *)
(***************************************************************************)
IsSet(x) == x.t = "str" /\ x.v # <<>>

SecondsOf(ts) == ts.v[1] * 86400 + ts.v[2] * 3600 + ts.v[3] * 60 + ts.v[4]

\* (reviewCount > 0 or commentsCount > 0), a resolution time exists (mergedAt
\* when set, otherwise closedAt when set), and it is at least 10 minutes
\* after createdAt
SurvivalPredicate(pr) ==
    /\ pr.reviewCount.v[1] > 0 \/ pr.commentsCount.v[1] > 0
    /\ IsSet(pr.mergedAt) \/ IsSet(pr.closedAt)
    /\ LET resolution == IF IsSet(pr.mergedAt) THEN pr.mergedAt ELSE pr.closedAt
       IN  SecondsOf(resolution) - SecondsOf(pr.createdAt) >= 10 * 60

Survivors(entry) == SelectSeq(entry.repository.pullRequests, SurvivalPredicate)

\* the entries with at least 20 survivors, each with exactly its survivors
ExpectedOutput(data) ==
    LET kept == SelectSeq(data, LAMBDA entry : Len(Survivors(entry)) >= 20)
    IN  [k \in 1..Len(kept) |->
           [kept[k] EXCEPT !.repository.pullRequests = Survivors(kept[k])]]

\* the data the last call of the filter loaded
LoadedData == files[filter_args[1]].data

\* C1: a record is kept if and only if it satisfies the survival predicate.
C1_KeptIffSurvivalPredicate ==
    filter_ret = "completed" =>
        /\ Len(valid_prs) = Len(LoadedData)
        /\ \A k \in 1..Len(LoadedData) : valid_prs[k] = Survivors(LoadedData[k])

\* a reviewed record with mergedAt set and closedAt null is kept, resolved
\* by mergedAt
C1_Witness ==
    /\ filter_ret = "completed"
    /\ \E k \in 1..Len(LoadedData) :
         \E i \in 1..Len(LoadedData[k].repository.pullRequests) :
            LET pr == LoadedData[k].repository.pullRequests[i]
            IN  /\ IsSet(pr.mergedAt)
                /\ pr.closedAt = PyNone
                /\ \E j \in 1..Len(valid_prs[k]) : valid_prs[k][j] = pr

\* C2: the filtered output holds exactly the repositories with at least 20
\* survivors, each with exactly its survivors, and the list of names holds
\* exactly the names of the output.
C2_OutputIffTwentySurvivors ==
    filter_ret = "completed" =>
        /\ filtered_data = ExpectedOutput(LoadedData)
        /\ repos_names = EntryNames(ExpectedOutput(LoadedData))

\* of two repositories of 25 records, the one with 15 survivors is in neither
\* list and the one with 22 is written with its 22 records
C2_Witness ==
    /\ filter_ret = "completed"
    /\ Len(LoadedData) = 2
    /\ Len(LoadedData[1].repository.pullRequests) = 25
    /\ Len(valid_prs[1]) = 15
    /\ Len(LoadedData[2].repository.pullRequests) = 25
    /\ repos_names = <<2>>
    /\ Len(filtered_data) = 1
    /\ Len(filtered_data[1].repository.pullRequests) = 22

\* C8: filtering the file a run of the filter wrote gives that file's
\* contents again, and the same list of names.
C8_FilterIdempotent ==
    (filter_ret = "completed" /\ filter_args = <<FilteredFile, RefilteredFile>>
        /\ FilteredFile \in written) =>
        /\ filtered_data = files[FilteredFile].data
        /\ repos_names = EntryNames(files[FilteredFile].data)
        /\ files[RefilteredFile] = files[FilteredFile]
        /\ files[NamesFile] = FileOf(repos_names)

\* the second pass has run over an output from which the first pass had
\* dropped records
C8_Witness ==
    /\ filter_ret = "completed"
    /\ filter_args = <<FilteredFile, RefilteredFile>>
    /\ FilteredFile \in written
    /\ files[RefilteredFile].exists
    /\ files[FilteredFile].data # files[RawFile].data

\* C9 as stated: a run that completes writes the output file and the names
\* file, so both hold what the input determines.
C9_CompletedRunWritesBoth ==
    filter_ret = "completed" =>
        /\ files[filter_args[2]] = FileOf(ExpectedOutput(LoadedData))
        /\ files[NamesFile] = FileOf(EntryNames(ExpectedOutput(LoadedData)))

\* C9 amended: a run that completes with at least one repository left writes
\* both files, which then hold what the input determines; a run that leaves
\* no repository writes neither file, and both keep what they held.
C9_WritesOnlyWhenSomeRepoSurvives ==
    [][filter_ret' = "completed" =>
        LET loaded == files[filter_args'[1]].data
        IN  IF ExpectedOutput(loaded) # <<>>
            THEN /\ files'[filter_args'[2]] = FileOf(ExpectedOutput(loaded))
                 /\ files'[NamesFile] =
                       FileOf(EntryNames(ExpectedOutput(loaded)))
                 /\ \A f \in FileNames \ {filter_args'[2], NamesFile} :
                       files'[f] = files[f]
            ELSE files' = files]_vars

\* a run completed with no repository left, and the output file still holds
\* what an earlier run had left there
C9_Witness ==
    /\ filter_ret = "completed"
    /\ filter_args = <<RawFile, FilteredFile>>
    /\ filtered_data = <<>>
    /\ files[FilteredFile] = FileOf(StaleData)
    /\ FilteredFile \notin written

====
